---- MODULE Spec2Model ----
(***************************************************************************)
(* Loki Mode: the task queue with its retry / dead-letter path and the     *)
(* completion council, as drawn in the architecture document               *)
(* (src/unnamed/part_001) and described in the dashboard document          *)
(* (src/unnamed/part_002).                                                 *)
(*                                                                         *)
(* The repository holds the state machines as diagrams; every edge of a    *)
(* diagram is one action here.  What the diagrams do not show (return      *)
(* values, the retry counter, the store's critical section, the layout of  *)
(* the persisted council rounds) follows the specification's contracts.    *)
(***************************************************************************)
EXTENDS Integers, Sequences, FiniteSets

\* ------------------------------------------------------------------ bounds
NumTasks == 2
NumAgents == 2
StallTimeout == 1
MaxIterations == 4
CouncilCheckInterval == 2
NumPhases == 2
MaxClock == 2

\* --------------------------------------------------------------- constants
MaxRetries == 5
CouncilSize == 3
ClaudeMaxParallel == 10
CodexMaxParallel == 1

Tasks == 1..NumTasks
Agents == 1..NumAgents
\* ids handed to complete(): every task of the store and one id it never held
TaskIds == 1..(NumTasks + 1)
NoTask == 0

TaskStates ==
  {"pending", "queued", "in_progress", "stalled", "retrying", "completed",
   "dead_letter"}

VARIABLES
  taskState,    \* task id -> state of the Task Queue State Machine
  retryCount,   \* task id -> retries so far
  queue,        \* .loki/queue/pending.json: the queued tasks, oldest first
  arrival,      \* the queued tasks in the order they were queued (history)
  age,          \* task id -> time spent queued, capped at StallTimeout + 1
  deadLetter,   \* .loki/queue/dead-letter.json: the failed tasks, in order
  picks,        \* task id -> pick() calls that returned it since it was queued
  lock,         \* agent inside the store's critical section, 0 when free
  pc,           \* agent -> "idle" | "picking"
  sel,          \* agent -> the task its pick() read at the head, NoTask if none
  ret,          \* what the last pick() / complete() returned
  iteration,    \* the session's iteration counter
  councilPhase, \* "idle" | "voting" | "devils_advocate"
  roundNo,      \* .loki/council/state.json: number of the current round
  votes,        \* member -> "none" | "yes" | "no", the current round's votes
  rounds,       \* .loki/council/votes/: the persisted rounds, in order
  decision,     \* what the last council check decided, "none" before it
  councilError, \* "none" | "QuorumError"
  session,      \* state of the Session State Machine
  phase,        \* index of the current SDLC phase
  agentState,   \* agent -> state of the Agent Lifecycle, "none" before spawn
  agentTask,    \* agent -> id of the task it was given, NoTask if none
  agentRet,     \* what the last assign() returned
  provider,     \* the active provider, which sets PROVIDER_MAX_PARALLEL
  envProvider,  \* LOKI_PROVIDER, "unset" if not set
  cliProvider,  \* --provider, "unset" if not given
  cfgProvider,  \* provider of config.yaml, "unset" if none
  tier,         \* last argument of provider_get_tier_param, "none" before
  tierParam,    \* what it echoed
  ipc,          \* position of postinstall.js
  versionFile,  \* whether the package has a VERSION file
  parentExists, \* whether ~/.claude/skills exists
  skillEntry,   \* what is at ~/.claude/skills/loki-mode
  backups,      \* timestamp -> what is at <skillDir>.backup.<timestamp>
  now,          \* Date.now() of the run
  installMsg,   \* which catch block reported, "none" if none
  removed,      \* kinds of the entries the script removed
  faulted       \* whether a filesystem call failed for an outside reason

queueVars ==
  <<taskState, retryCount, queue, arrival, age, deadLetter, picks, lock, pc, sel,
    ret>>

councilVars ==
  <<iteration, councilPhase, roundNo, votes, rounds, decision, councilError>>

sessionVars == <<session, phase>>

agentVars == <<agentState, agentTask, agentRet, provider>>

selectVars == <<envProvider, cliProvider, cfgProvider, tier, tierParam>>

installVars ==
  <<ipc, versionFile, parentExists, skillEntry, backups, now, installMsg,
    removed, faulted>>

scriptVars == <<selectVars, installVars>>

vars == <<queueVars, councilVars, sessionVars, agentVars, scriptVars>>

NoRet == [op |-> "none", arg |-> 0, val |-> "none"]

\* ---------------------------------------------------------------- helpers
RECURSIVE RemoveTask(_, _)
RemoveTask(q, t) ==
  IF q = <<>> THEN <<>>
  ELSE IF Head(q) = t THEN RemoveTask(Tail(q), t)
       ELSE <<Head(q)>> \o RemoveTask(Tail(q), t)

InSeq(q, t) == \E i \in 1..Len(q) : q[i] = t

\* the oldest queued task, the one pick() selects
Oldest(q) == IF q = <<>> THEN NoTask ELSE Head(q)

\* enqueue puts the task into the pending queue
PrependTask(q, t) == <<t>> \o q

AppendTask(q, t) == Append(q, t)

\* pick takes the task out of the pending queue
DequeueNothing(q, t) == q

Dequeue(q, t) == RemoveTask(q, t)

\* one more retry counted
SameRetryCount(n) == n

NextRetryCount(n) == n + 1

\* a failed task is written to the dead-letter log
LogNothing(log, rec) == log

LogFailure(log, rec) == Append(log, rec)

\* complete() accepts exactly the tasks that are in progress
CompletableQueuedToo(id) ==
  id \in Tasks /\ taskState[id] \in {"in_progress", "queued"}

Completable(id) == id \in Tasks /\ taskState[id] = "in_progress"

\* a task's time in the queue exceeds the configured timeout
TimedOut(t) == age[t] > StallTimeout

\* the retry budget is used up
RetriesExceeded(t) == retryCount[t] > MaxRetries

RetriesExhausted(t) == retryCount[t] >= MaxRetries

\* the store's critical section is free for agent a
CanEnter(a) == lock = 0

QueueInit ==
  /\ taskState = [t \in Tasks |-> "pending"]
  /\ retryCount = [t \in Tasks |-> 0]
  /\ queue = <<>>
  /\ arrival = <<>>
  /\ age = [t \in Tasks |-> 0]
  /\ deadLetter = <<>>
  /\ picks = [t \in Tasks |-> 0]
  /\ lock = 0
  /\ pc = [a \in Agents |-> "idle"]
  /\ sel = [a \in Agents |-> NoTask]
  /\ ret = NoRet

\* ---------------------------------------------------------------- actions
\* PENDING --queue--> QUEUED
Enqueue(t) ==
  /\ lock = 0
  /\ taskState[t] = "pending"
  /\ taskState' = [taskState EXCEPT ![t] = "queued"]
  /\ queue' = AppendTask(queue, t)
  /\ arrival' = Append(arrival, t)
  /\ age' = [age EXCEPT ![t] = 0]
  /\ picks' = [picks EXCEPT ![t] = 0]
  /\ ret' = NoRet
  /\ UNCHANGED <<retryCount, deadLetter, lock, pc, sel>>
  /\ UNCHANGED <<councilVars, sessionVars, agentVars, scriptVars>>

\* pick(), first half: enter the critical section and read the head
PickBegin(a) ==
  /\ pc[a] = "idle"
  /\ CanEnter(a)
  /\ lock' = a
  /\ pc' = [pc EXCEPT ![a] = "picking"]
  /\ sel' = [sel EXCEPT ![a] = Oldest(queue)]
  /\ ret' = NoRet
  /\ UNCHANGED <<taskState, retryCount, queue, arrival, age, deadLetter, picks>>
  /\ UNCHANGED <<councilVars, sessionVars, agentVars, scriptVars>>

\* pick(), second half: QUEUED --pick--> IN_PROGRESS, leave the section
PickEnd(a) ==
  /\ pc[a] = "picking"
  /\ IF sel[a] = NoTask
       THEN /\ ret' = [op |-> "pick", arg |-> 0, val |-> "no_task"]
            /\ UNCHANGED <<taskState, queue, arrival, age, picks>>
       ELSE /\ taskState' = [taskState EXCEPT ![sel[a]] = "in_progress"]
            /\ queue' = Dequeue(queue, sel[a])
            /\ arrival' = RemoveTask(arrival, sel[a])
            /\ age' = [age EXCEPT ![sel[a]] = 0]
            /\ picks' = [picks EXCEPT ![sel[a]] = @ + 1]
            /\ ret' = [op |-> "pick", arg |-> sel[a], val |-> "task"]
  /\ lock' = IF lock = a THEN 0 ELSE lock
  /\ pc' = [pc EXCEPT ![a] = "idle"]
  /\ sel' = [sel EXCEPT ![a] = NoTask]
  /\ UNCHANGED <<retryCount, deadLetter>>
  /\ UNCHANGED <<councilVars, sessionVars, agentVars, scriptVars>>

\* complete(taskId): IN_PROGRESS --complete--> COMPLETED, UnknownTask otherwise
Complete(id) ==
  /\ lock = 0
  /\ IF Completable(id)
       THEN /\ taskState' = [taskState EXCEPT ![id] = "completed"]
            /\ ret' = [op |-> "complete", arg |-> id, val |-> "ok"]
       ELSE /\ ret' = [op |-> "complete", arg |-> id, val |-> "UnknownTask"]
            /\ UNCHANGED taskState
  /\ UNCHANGED <<retryCount, queue, arrival, age, deadLetter, picks, lock, pc,
                 sel>>
  /\ UNCHANGED <<councilVars, sessionVars, agentVars, scriptVars>>

\* time passes for every task waiting in the queue
Tick ==
  /\ \E t \in Tasks : taskState[t] = "queued" /\ age[t] <= StallTimeout
  /\ age' = [t \in Tasks |->
               IF taskState[t] = "queued" /\ age[t] <= StallTimeout
                 THEN age[t] + 1 ELSE age[t]]
  /\ ret' = NoRet
  /\ UNCHANGED <<taskState, retryCount, queue, arrival, deadLetter, picks, lock,
                 pc, sel>>
  /\ UNCHANGED <<councilVars, sessionVars, agentVars, scriptVars>>

\* the background sweep: QUEUED --timeout--> STALLED
Sweep(t) ==
  /\ lock = 0
  /\ taskState[t] = "queued"
  /\ TimedOut(t)
  /\ taskState' = [taskState EXCEPT ![t] = "stalled"]
  /\ queue' = RemoveTask(queue, t)
  /\ arrival' = RemoveTask(arrival, t)
  /\ age' = [age EXCEPT ![t] = 0]
  /\ ret' = NoRet
  /\ UNCHANGED <<retryCount, deadLetter, picks, lock, pc, sel>>
  /\ UNCHANGED <<councilVars, sessionVars, agentVars, scriptVars>>

\* STALLED --retry--> RETRYING, one more retry counted
Retry(t) ==
  /\ lock = 0
  /\ taskState[t] = "stalled"
  /\ taskState' = [taskState EXCEPT ![t] = "retrying"]
  /\ retryCount' = [retryCount EXCEPT ![t] = NextRetryCount(@)]
  /\ ret' = NoRet
  /\ UNCHANGED <<queue, arrival, age, deadLetter, picks, lock, pc, sel>>
  /\ UNCHANGED <<councilVars, sessionVars, agentVars, scriptVars>>

\* RETRYING, budget left: back to the tail of the queue
Requeue(t) ==
  /\ lock = 0
  /\ taskState[t] = "retrying"
  /\ ~RetriesExhausted(t)
  /\ taskState' = [taskState EXCEPT ![t] = "queued"]
  /\ queue' = AppendTask(queue, t)
  /\ arrival' = Append(arrival, t)
  /\ age' = [age EXCEPT ![t] = 0]
  /\ picks' = [picks EXCEPT ![t] = 0]
  /\ ret' = NoRet
  /\ UNCHANGED <<retryCount, deadLetter, lock, pc, sel>>
  /\ UNCHANGED <<councilVars, sessionVars, agentVars, scriptVars>>

\* RETRYING --max retries (5)--> DEAD_LETTER, reported in the dead-letter log
DeadLetter(t) ==
  /\ lock = 0
  /\ taskState[t] = "retrying"
  /\ RetriesExhausted(t)
  /\ taskState' = [taskState EXCEPT ![t] = "dead_letter"]
  /\ deadLetter' = LogFailure(deadLetter, [id |-> t, retries |-> retryCount[t]])
  /\ ret' = NoRet
  /\ UNCHANGED <<retryCount, queue, arrival, age, picks, lock, pc, sel>>
  /\ UNCHANGED <<councilVars, sessionVars, agentVars, scriptVars>>

\* ------------------------------------------------------ completion council
Members == 1..CouncilSize

VoteValues == {"yes", "no"}

YesCount(v) == Cardinality({m \in Members : v[m] = "yes"})

SomeResponded(v) == \E m \in Members : v[m] # "none"

AllResponded(v) == \A m \in Members : v[m] # "none"

TallyStrictlyMore(yes) ==
  IF 3 * yes > 2 * CouncilSize
    THEN IF yes = CouncilSize THEN "devils_advocate_pending" ELSE "complete"
    ELSE "continue"

TallyNoAdvocate(yes) ==
  IF 3 * yes >= 2 * CouncilSize THEN "complete" ELSE "continue"

\* TALLY VOTES: >= 2/3 yes is a completion, a unanimous one goes to the
\* devil's advocate first, < 2/3 continues
Tally(yes) ==
  IF 3 * yes >= 2 * CouncilSize
    THEN IF yes = CouncilSize THEN "devils_advocate_pending" ELSE "complete"
    ELSE "continue"

ReviewRubberStamp(confirm) == "complete"

\* DEVIL'S ADVOCATE: CONFIRM -> COMPLETE, REJECT -> CONTINUE
Review(confirm) == IF confirm THEN "complete" ELSE "continue"

OverwriteRound(log, rec) == <<rec>>

\* Votes: .loki/council/votes/, one more record per tallied round
PersistRound(log, rec) == Append(log, rec)

\* Every COUNCIL_CHECK_INTERVAL iterations, once per iteration
CheckDue ==
  /\ councilPhase = "idle"
  /\ decision = "none"
  /\ iteration > 0
  /\ iteration % CouncilCheckInterval = 0

CouncilInit ==
  /\ iteration = 0
  /\ councilPhase = "idle"
  /\ roundNo = 0
  /\ votes = [m \in Members |-> "none"]
  /\ rounds = <<>>
  /\ decision = "none"
  /\ councilError = "none"

\* ITERATION N: the session goes on unless the council decided to complete
NextIteration ==
  /\ councilPhase = "idle"
  /\ ~CheckDue
  /\ decision # "complete"
  /\ iteration < MaxIterations
  /\ iteration' = iteration + 1
  /\ decision' = "none"
  /\ councilError' = "none"
  /\ UNCHANGED <<councilPhase, roundNo, votes, rounds>>
  /\ UNCHANGED <<queueVars, sessionVars, agentVars, scriptVars>>

\* COUNCIL CHECK: checkConvergence(iteration) opens a round and asks the members
CheckConvergence ==
  /\ CheckDue
  /\ councilPhase' = "voting"
  /\ roundNo' = roundNo + 1
  /\ votes' = [m \in Members |-> "none"]
  /\ UNCHANGED <<iteration, rounds, decision, councilError>>
  /\ UNCHANGED <<queueVars, sessionVars, agentVars, scriptVars>>

\* MEMBER m, Vote: Y/N
MemberVote(m, v) ==
  /\ councilPhase = "voting"
  /\ votes[m] = "none"
  /\ votes' = [votes EXCEPT ![m] = v]
  /\ UNCHANGED <<iteration, councilPhase, roundNo, rounds, decision, councilError>>
  /\ UNCHANGED <<queueVars, sessionVars, agentVars, scriptVars>>

\* TALLY VOTES, once every member has answered; the round is persisted
TallyVotes ==
  /\ councilPhase = "voting"
  /\ AllResponded(votes)
  /\ LET outcome == Tally(YesCount(votes)) IN
       /\ rounds' = PersistRound(rounds,
            [round |-> roundNo, votes |-> votes, outcome |-> outcome,
             review |-> "none"])
       /\ IF outcome = "devils_advocate_pending"
            THEN /\ councilPhase' = "devils_advocate"
                 /\ UNCHANGED decision
            ELSE /\ councilPhase' = "idle"
                 /\ decision' = outcome
  /\ UNCHANGED <<iteration, roundNo, votes, councilError>>
  /\ UNCHANGED <<queueVars, sessionVars, agentVars, scriptVars>>

\* DEVIL'S ADVOCATE: the re-review of a unanimous round, recorded as a round
\* outcome of its own
DevilsAdvocate(confirm) ==
  /\ councilPhase = "devils_advocate"
  /\ rounds' = PersistRound(rounds,
       [round |-> roundNo, votes |-> votes, outcome |-> Review(confirm),
        review |-> IF confirm THEN "confirmed" ELSE "rejected"])
  /\ decision' = Review(confirm)
  /\ councilPhase' = "idle"
  /\ UNCHANGED <<iteration, roundNo, votes, councilError>>
  /\ UNCHANGED <<queueVars, sessionVars, agentVars, scriptVars>>

WaitForEver == FALSE /\ UNCHANGED vars

\* the members' timeout: fewer than 3 answers is a QuorumError, the round is
\* discarded and the check decides continue
QuorumTimeout ==
  /\ councilPhase = "voting"
  /\ ~AllResponded(votes)
  /\ councilError' = "QuorumError"
  /\ decision' = "continue"
  /\ councilPhase' = "idle"
  /\ votes' = [m \in Members |-> "none"]
  /\ UNCHANGED <<iteration, roundNo, rounds>>
  /\ UNCHANGED <<queueVars, sessionVars, agentVars, scriptVars>>

\* -------------------------------------------------- session state machine
SessionStates ==
  {"idle", "initializing", "running", "paused", "phase_n", "completing",
   "completed", "failed", "max_retries_exceeded", "stopped"}

Phases == 1..NumPhases

\* the SDLC phase a task belongs to: two tasks to a phase, in id order
PhaseOf(t) == IF (t + 1) \div 2 < NumPhases THEN (t + 1) \div 2 ELSE NumPhases

PhaseTasks(p) == {t \in Tasks : PhaseOf(t) = p}

PhaseAllCompleted(p) ==
  \A t \in PhaseTasks(p) : taskState[t] = "completed"

PhaseAnyResolved(p) ==
  \E t \in PhaseTasks(p) : taskState[t] \in {"completed", "dead_letter"}

\* Phase complete: every task of the phase is completed or dead-lettered
PhaseResolved(p) ==
  \A t \in PhaseTasks(p) : taskState[t] \in {"completed", "dead_letter"}

SessionInit ==
  /\ session = "idle"
  /\ phase = 1

\* IDLE --loki start--> INITIALIZING
Start ==
  /\ session = "idle"
  /\ session' = "initializing"
  /\ UNCHANGED <<phase, queueVars, councilVars, agentVars, scriptVars>>

\* INITIALIZING --PRD loaded--> RUNNING
PrdLoaded ==
  /\ session = "initializing"
  /\ session' = "running"
  /\ UNCHANGED <<phase, queueVars, councilVars, agentVars, scriptVars>>

\* RUNNING --loki pause--> PAUSED
Pause ==
  /\ session = "running"
  /\ session' = "paused"
  /\ UNCHANGED <<phase, queueVars, councilVars, agentVars, scriptVars>>

\* PAUSED --loki resume-->: the arrow is drawn past RUNNING, down the line
\* that ends in COMPLETED
Resume ==
  /\ session = "paused"
  /\ session' = "completed"
  /\ UNCHANGED <<phase, queueVars, councilVars, agentVars, scriptVars>>

\* RUNNING --Phase complete--> PHASE_N
PhaseComplete ==
  /\ session = "running"
  /\ PhaseResolved(phase)
  /\ session' = "phase_n"
  /\ UNCHANGED <<phase, queueVars, councilVars, agentVars, scriptVars>>

\* PHASE_N --Next phase--> RUNNING
NextPhase ==
  /\ session = "phase_n"
  /\ phase < NumPhases
  /\ phase' = phase + 1
  /\ session' = "running"
  /\ UNCHANGED <<queueVars, councilVars, agentVars, scriptVars>>

\* PHASE_N --All phases done--> COMPLETING
AllPhasesDone ==
  /\ session = "phase_n"
  /\ phase = NumPhases
  /\ session' = "completing"
  /\ UNCHANGED <<phase, queueVars, councilVars, agentVars, scriptVars>>

\* COMPLETING --Cleanup done--> COMPLETED
CleanupDone ==
  /\ session = "completing"
  /\ session' = "completed"
  /\ UNCHANGED <<phase, queueVars, councilVars, agentVars, scriptVars>>

\* RUNNING/PHASE_N --[error]--> FAILED
SessionError ==
  /\ session \in {"running", "phase_n"}
  /\ session' = "failed"
  /\ UNCHANGED <<phase, queueVars, councilVars, agentVars, scriptVars>>

\* RUNNING/PHASE_N --[max retries]--> MAX_RETRIES_EXCEEDED
SessionMaxRetries ==
  /\ session \in {"running", "phase_n"}
  /\ session' = "max_retries_exceeded"
  /\ UNCHANGED <<phase, queueVars, councilVars, agentVars, scriptVars>>

StoppableWhileActive(st) == st \in {"running", "paused", "phase_n"}

\* ANY
Stoppable(st) == st \in SessionStates

\* ANY --[loki stop]--> STOPPED
Stop ==
  /\ Stoppable(session)
  /\ session' = "stopped"
  /\ UNCHANGED <<phase, queueVars, councilVars, agentVars, scriptVars>>

ResetClearsQueue ==
  /\ session \in {"failed", "max_retries_exceeded", "stopped"}
  /\ session' = "idle"
  /\ taskState' = [t \in Tasks |-> "pending"]
  /\ retryCount' = [t \in Tasks |-> 0]
  /\ queue' = <<>>
  /\ arrival' = <<>>
  /\ age' = [t \in Tasks |-> 0]
  /\ picks' = [t \in Tasks |-> 0]
  /\ UNCHANGED <<deadLetter, lock, pc, sel, ret>>
  /\ UNCHANGED <<phase, councilVars, agentVars, scriptVars>>

\* FAILED, MAX_RETRIES_EXCEEDED, STOPPED --[reset]--> IDLE
Reset ==
  /\ session \in {"failed", "max_retries_exceeded", "stopped"}
  /\ session' = "idle"
  /\ UNCHANGED <<phase, queueVars, councilVars, agentVars, scriptVars>>

\* -------------------------------------------------------- agent lifecycle
AgentStates ==
  {"none", "spawn", "ready", "working", "error", "retrying", "reporting",
   "terminated"}

Providers == {"claude", "codex"}

NoAgentRet == [op |-> "none", agent |-> 0, task |-> NoTask, val |-> "none"]

ProviderMaxParallelClaudeOnly(p) == ClaudeMaxParallel

ProviderMaxParallelAgents(p) == NumAgents

\* PROVIDER_HAS_SUBAGENTS of the provider's config file
ProviderHasSubagents(p) == p # "codex"

\* PROVIDER_MAX_PARALLEL of the provider's config file
ProviderMaxParallel(p) ==
  IF p = "codex" THEN CodexMaxParallel ELSE ClaudeMaxParallel

\* agents that hold a slot: WORKING and its ERROR / RETRYING branch
ActiveAgents ==
  {a \in Agents : agentState[a] \in {"working", "error", "retrying"}}

HasCapacity == Cardinality(ActiveAgents) < ProviderMaxParallel(provider)

IsSpawned(a) == agentState[a] # "none"

IsReadyOrWorking(a) == agentState[a] \in {"ready", "working"}

\* READY is the only state with a Receive task edge
IsReady(a) == agentState[a] = "ready"

AgentFieldsInit ==
  /\ agentState = [a \in Agents |-> "none"]
  /\ agentTask = [a \in Agents |-> NoTask]
  /\ agentRet = NoAgentRet

\* DEFAULT (claude)
AgentInit ==
  /\ AgentFieldsInit
  /\ provider = "claude"

AgentStep(a, to) ==
  /\ agentState' = [agentState EXCEPT ![a] = to]
  /\ agentRet' = NoAgentRet
  /\ UNCHANGED <<agentTask, provider>>
  /\ UNCHANGED <<queueVars, councilVars, sessionVars, scriptVars>>

\* SPAWN
AgentSpawn(a) ==
  /\ agentState[a] = "none"
  /\ AgentStep(a, "spawn")

\* SPAWN --Initialize--> READY
AgentInitialize(a) ==
  /\ agentState[a] = "spawn"
  /\ AgentStep(a, "ready")

\* READY --Receive task--> WORKING; AgentBusy and CapacityExceeded otherwise
Assign(a, t) ==
  /\ IsSpawned(a)
  /\ IF ~IsReady(a)
       THEN /\ agentRet' = [op |-> "assign", agent |-> a, task |-> t,
                            val |-> "AgentBusy"]
            /\ UNCHANGED <<agentState, agentTask>>
       ELSE IF ~HasCapacity
         THEN /\ agentRet' = [op |-> "assign", agent |-> a, task |-> t,
                              val |-> "CapacityExceeded"]
              /\ UNCHANGED <<agentState, agentTask>>
         ELSE /\ agentRet' = [op |-> "assign", agent |-> a, task |-> t,
                              val |-> "ok"]
              /\ agentState' = [agentState EXCEPT ![a] = "working"]
              /\ agentTask' = [agentTask EXCEPT ![a] = t]
  /\ UNCHANGED provider
  /\ UNCHANGED <<queueVars, councilVars, sessionVars, scriptVars>>

\* WORKING --> ERROR
AgentFail(a) ==
  /\ agentState[a] = "working"
  /\ AgentStep(a, "error")

\* ERROR --Retry--> RETRYING
AgentRetry(a) ==
  /\ agentState[a] = "error"
  /\ AgentStep(a, "retrying")

\* the box the arrow out of RETRYING points at
AfterRetry == "reporting"

\* RETRYING -----> REPORTING
AgentRetried(a) ==
  /\ agentState[a] = "retrying"
  /\ AgentStep(a, AfterRetry)

\* WORKING --Complete--> REPORTING
AgentComplete(a) ==
  /\ agentState[a] = "working"
  /\ AgentStep(a, "reporting")

\* REPORTING --Report sent--> TERMINATED
AgentReport(a) ==
  /\ agentState[a] = "reporting"
  /\ AgentStep(a, "terminated")

\* ------------------------------------------------------ provider selection
ProviderNames == {"claude", "codex", "gemini"}

SourceValues == ProviderNames \cup {"unset"}

TierNames == {"planning", "development", "fast", "", "review", "Planning"}

SelectProviderCliFirst(env, cli, cfg) ==
  IF cli # "unset" THEN cli
  ELSE IF env # "unset" THEN env
  ELSE IF cfg # "unset" THEN cfg
  ELSE "claude"

\* LOKI_PROVIDER environment, or --provider CLI flag, or config.yaml, or
\* DEFAULT (claude)
SelectProvider(env, cli, cfg) ==
  IF env # "unset" THEN env
  ELSE IF cli # "unset" THEN cli
  ELSE IF cfg # "unset" THEN cfg
  ELSE "claude"

\* providers/codex.sh
ProviderEffortPlanning == "xhigh"

ProviderEffortDevelopment == "high"

ProviderEffortFast == "low"

\* skills/model-selection.md, Abstract Model Tiers: the Claude column and the
\* effort= value of the Codex column
DocTierTable ==
  [planning |-> [claude |-> "opus", codex |-> "xhigh"],
   development |-> [claude |-> "sonnet", codex |-> "high"],
   fast |-> [claude |-> "haiku", codex |-> "low"]]

CodexTierParamFastDefault(t) ==
  CASE t = "planning" -> "xhigh"
    [] t = "development" -> "high"
    [] OTHER -> "low"

\* providers/codex.sh, provider_get_tier_param
CodexTierParam(t) ==
  CASE t = "planning" -> "xhigh"
    [] t = "development" -> "high"
    [] t = "fast" -> "low"
    [] OTHER -> "high"

\* providers/claude.sh, provider_get_tier_param
ClaudeTierParam(t) ==
  CASE t = "planning" -> "opus"
    [] t = "development" -> "sonnet"
    [] t = "fast" -> "haiku"
    [] OTHER -> "sonnet"

\* the function of the provider file that was sourced
ProviderGetTierParam(p, t) ==
  IF p = "codex" THEN CodexTierParam(t) ELSE ClaudeTierParam(t)

SelectInit ==
  /\ envProvider = "unset"
  /\ cliProvider = "unset"
  /\ cfgProvider = "unset"
  /\ tier = "none"
  /\ tierParam = "none"

\* the selection is made once, from the three sources
LoadProvider ==
  /\ provider = "unset"
  /\ provider' = SelectProvider(envProvider, cliProvider, cfgProvider)
  /\ UNCHANGED <<agentState, agentTask, agentRet>>
  /\ UNCHANGED <<selectVars, installVars>>
  /\ UNCHANGED <<queueVars, councilVars, sessionVars>>

\* provider_get_tier_param "$tier", for a provider whose file is in src/
GetTierParam(t) ==
  /\ provider \in Providers
  /\ tier' = t
  /\ tierParam' = ProviderGetTierParam(provider, t)
  /\ UNCHANGED <<envProvider, cliProvider, cfgProvider>>
  /\ UNCHANGED <<installVars, agentVars>>
  /\ UNCHANGED <<queueVars, councilVars, sessionVars>>

\* ------------------------------------------------------------ postinstall.js
Clock == 1..MaxClock

Absent == [kind |-> "absent", data |-> "none"]

\* a symlink and where it points: the package, another existing directory, or
\* nothing that exists
Link(target) == [kind |-> "link", data |-> target]

\* a real directory with the user's files in it
Dir == [kind |-> "dir", data |-> "user_files"]

SkillEntries ==
  {Absent, Link("package"), Link("other"), Link("missing"), Dir}

\* fs.existsSync follows symlinks: false for a symlink whose target is gone
ExistsSync(e) == e.kind = "dir" \/ (e.kind = "link" /\ e.data # "missing")

IsAnyEntry(e) == e.kind # "absent"

\* fs.lstatSync(skillDir).isSymbolicLink()
IsSymbolicLink(e) == e.kind = "link"

InstallInit ==
  /\ ipc = "start"
  /\ versionFile = TRUE
  /\ parentExists = TRUE
  /\ skillEntry = Absent
  /\ backups = [c \in Clock |-> Absent]
  /\ now = 1
  /\ installMsg = "none"
  /\ removed = {}
  /\ faulted = FALSE

InstallFrame ==
  /\ UNCHANGED <<versionFile, now>>
  /\ UNCHANGED <<selectVars, agentVars, queueVars, councilVars, sessionVars>>

\* catch (err): Could not auto-install skill
OuterCatch(f) ==
  /\ installMsg' = "auto_install_failed"
  /\ faulted' = (faulted \/ f)
  /\ ipc' = "done"

\* const version: VERSION, or package.json when it cannot be read
ReadVersion ==
  /\ ipc = "start"
  /\ ipc' = "mkdir"
  /\ UNCHANGED <<parentExists, skillEntry, backups, installMsg, removed, faulted>>
  /\ InstallFrame

\* if (!fs.existsSync(skillParent)) fs.mkdirSync(skillParent, ...)
MkdirParent(f) ==
  /\ ipc = "mkdir"
  /\ IF parentExists
       THEN /\ ~f
            /\ ipc' = "check"
            /\ UNCHANGED <<parentExists, installMsg, faulted>>
       ELSE IF f
         THEN OuterCatch(f) /\ UNCHANGED parentExists
         ELSE /\ parentExists' = TRUE
              /\ ipc' = "check"
              /\ UNCHANGED <<installMsg, faulted>>
  /\ UNCHANGED <<skillEntry, backups, removed>>
  /\ InstallFrame

\* if (fs.existsSync(skillDir)) { stats = fs.lstatSync(skillDir); ... }
CheckSkill(f) ==
  /\ ipc = "check"
  /\ IF ~ExistsSync(skillEntry)
       THEN /\ ~f
            /\ ipc' = "create"
            /\ UNCHANGED <<installMsg, faulted>>
       ELSE IF f
         THEN OuterCatch(f)
         ELSE /\ ipc' = IF IsSymbolicLink(skillEntry) THEN "unlink" ELSE "backup"
              /\ UNCHANGED <<installMsg, faulted>>
  /\ UNCHANGED <<parentExists, skillEntry, backups, removed>>
  /\ InstallFrame

\* fs.unlinkSync(skillDir)
Unlink(f) ==
  /\ ipc = "unlink"
  /\ IF f
       THEN OuterCatch(f) /\ UNCHANGED <<skillEntry, removed>>
       ELSE /\ skillEntry' = Absent
            /\ removed' = removed \cup {skillEntry.kind}
            /\ ipc' = "create"
            /\ UNCHANGED <<installMsg, faulted>>
  /\ UNCHANGED <<parentExists, backups>>
  /\ InstallFrame

\* backupDir = skillDir + '.backup.' + Date.now(); fs.renameSync(skillDir,
\* backupDir), with its own catch (backupErr)
Backup(f) ==
  /\ ipc = "backup"
  /\ IF f
       THEN /\ installMsg' = "backup_failed"
            /\ faulted' = TRUE
            /\ UNCHANGED <<skillEntry, backups>>
       ELSE /\ backups' = [backups EXCEPT ![now] = skillEntry]
            /\ skillEntry' = Absent
            /\ UNCHANGED <<installMsg, faulted>>
  /\ ipc' = "create"
  /\ UNCHANGED <<parentExists, removed>>
  /\ InstallFrame

\* if (!fs.existsSync(skillDir)) fs.symlinkSync(packageDir, skillDir): the
\* call throws EEXIST when an entry is there that existsSync did not see
CreateSymlink(f) ==
  /\ ipc = "create"
  /\ IF ExistsSync(skillEntry)
       THEN /\ ~f
            /\ ipc' = "done"
            /\ UNCHANGED <<skillEntry, installMsg, faulted>>
       ELSE IF skillEntry.kind # "absent"
         THEN /\ ~f
              /\ OuterCatch(f)
              /\ UNCHANGED skillEntry
         ELSE IF f
           THEN OuterCatch(f) /\ UNCHANGED skillEntry
           ELSE /\ skillEntry' = Link("package")
                /\ ipc' = "done"
                /\ UNCHANGED <<installMsg, faulted>>
  /\ UNCHANGED <<parentExists, backups, removed>>
  /\ InstallFrame

\* ---------------------------------------------------------- specifications
Init ==
  /\ QueueInit
  /\ CouncilInit
  /\ SessionInit
  /\ AgentInit
  /\ SelectInit
  /\ InstallInit

Next ==
  \/ \E t \in Tasks : Enqueue(t)
  \/ \E a \in Agents : PickBegin(a)
  \/ \E a \in Agents : PickEnd(a)
  \/ \E id \in TaskIds : Complete(id)
  \/ Tick
  \/ \E t \in Tasks : Sweep(t)
  \/ \E t \in Tasks : Retry(t)
  \/ \E t \in Tasks : Requeue(t)
  \/ \E t \in Tasks : DeadLetter(t)

\* the task queue store with its sweep and its retry / dead-letter manager
Spec == Init /\ [][Next]_vars

\* the same store with pick, the stall sweep and the retry / dead-letter
\* manager scheduled fairly; complete is the worker's call and is promised
\* by nobody
QueueFairSpec ==
  /\ Init
  /\ [][Next]_vars
  /\ WF_vars(Tick)
  /\ \A a \in Agents : WF_vars(PickEnd(a))
  /\ SF_vars(\E a \in Agents : PickBegin(a) /\ queue # <<>>)
  /\ \A t \in Tasks : SF_vars(Sweep(t))
  /\ \A t \in Tasks : SF_vars(Retry(t))
  /\ \A t \in Tasks : SF_vars(Requeue(t))
  /\ \A t \in Tasks : SF_vars(DeadLetter(t))

CouncilNext ==
  \/ NextIteration
  \/ CheckConvergence
  \/ \E m \in Members, v \in VoteValues : MemberVote(m, v)
  \/ TallyVotes
  \/ \E c \in BOOLEAN : DevilsAdvocate(c)
  \/ QuorumTimeout

\* the completion council, driven by the iteration counter
CouncilSpec == Init /\ [][CouncilNext]_vars

\* the council sits while the session is RUNNING, under the operator's
\* start, pause, resume, stop and reset
CouncilSessionNext ==
  \/ Start
  \/ PrdLoaded
  \/ Pause
  \/ Resume
  \/ Stop
  \/ Reset
  \/ (session = "running" /\ NextIteration)
  \/ (session = "running" /\ CheckConvergence)
  \/ (session = "running" /\ \E m \in Members, v \in VoteValues : MemberVote(m, v))
  \/ (session = "running" /\ TallyVotes)
  \/ (session = "running" /\ \E c \in BOOLEAN : DevilsAdvocate(c))
  \/ (session = "running" /\ QuorumTimeout)

CouncilSessionSpec == Init /\ [][CouncilSessionNext]_vars

\* a round that ends without three answers cannot wait for ever: the timeout
\* is a timer, the tally and the re-review are steps of the same call
CouncilFairSpec ==
  /\ Init
  /\ [][CouncilNext]_vars
  /\ WF_vars(TallyVotes)
  /\ WF_vars(QuorumTimeout)
  /\ WF_vars(\E c \in BOOLEAN : DevilsAdvocate(c))

\* a step is begun only while the session is RUNNING
MayStartStep == session = "running"

\* a step that is in flight when the stop arrives is finished: the agent sees
\* the stop at its next checkpoint, between steps
MayFinishStep == session \in {"running", "stopped"}

\* the session drives the queue: tasks of the current phase move while RUNNING
SessionNext ==
  \/ Start
  \/ PrdLoaded
  \/ Pause
  \/ Resume
  \/ PhaseComplete
  \/ NextPhase
  \/ AllPhasesDone
  \/ CleanupDone
  \/ SessionError
  \/ SessionMaxRetries
  \/ Stop
  \/ Reset
  \/ (session = "running" /\ \E t \in PhaseTasks(phase) : Enqueue(t))
  \/ (MayStartStep /\ \E a \in Agents : PickBegin(a))
  \/ (MayFinishStep /\ \E a \in Agents : PickEnd(a))
  \/ (session = "running" /\ \E id \in TaskIds : Complete(id))
  \/ (session = "running" /\ Tick)
  \/ (session = "running" /\ \E t \in Tasks : Sweep(t))
  \/ (session = "running" /\ \E t \in Tasks : Retry(t))
  \/ (session = "running" /\ \E t \in Tasks : Requeue(t))
  \/ (session = "running" /\ \E t \in Tasks : DeadLetter(t))

SessionSpec == Init /\ [][SessionNext]_vars

\* the session's own control loop takes its next step when it can; the
\* operator's commands, errors and the workers are under no obligation
SessionFairSpec ==
  /\ Init
  /\ [][SessionNext]_vars
  /\ WF_vars(PhaseComplete)
  /\ WF_vars(NextPhase)
  /\ WF_vars(AllPhasesDone)

AgentSpecInit ==
  /\ QueueInit
  /\ CouncilInit
  /\ SessionInit
  /\ AgentFieldsInit
  /\ provider \in Providers
  /\ SelectInit
  /\ InstallInit

AgentNext ==
  \/ \E a \in Agents : AgentSpawn(a)
  \/ \E a \in Agents : AgentInitialize(a)
  \/ \E a \in Agents, t \in Tasks : Assign(a, t)
  \/ \E a \in Agents : AgentFail(a)
  \/ \E a \in Agents : AgentRetry(a)
  \/ \E a \in Agents : AgentRetried(a)
  \/ \E a \in Agents : AgentComplete(a)
  \/ \E a \in Agents : AgentReport(a)

AgentSpec == AgentSpecInit /\ [][AgentNext]_vars

\* every agent is a worker that keeps running: it takes its next step when
\* one is open to it; spawning and assigning are up to the controller
AgentFairSpec ==
  /\ AgentSpecInit
  /\ [][AgentNext]_vars
  /\ \A a \in Agents :
       /\ WF_vars(AgentFail(a) \/ AgentComplete(a))
       /\ WF_vars(AgentRetry(a))
       /\ WF_vars(AgentRetried(a))
       /\ WF_vars(AgentReport(a))

\* every combination of set and unset sources, before the selection
ProviderSpecInit ==
  /\ QueueInit
  /\ CouncilInit
  /\ SessionInit
  /\ AgentFieldsInit
  /\ InstallInit
  /\ provider = "unset"
  /\ envProvider \in SourceValues
  /\ cliProvider \in SourceValues
  /\ cfgProvider \in SourceValues
  /\ tier = "none"
  /\ tierParam = "none"

ProviderNext ==
  \/ LoadProvider
  \/ \E t \in TierNames : GetTierParam(t)

ProviderSpec == ProviderSpecInit /\ [][ProviderNext]_vars

\* every state the script can find: with or without a VERSION file, with or
\* without ~/.claude/skills, and each kind of entry at the skill path
InstallSpecInit ==
  /\ QueueInit
  /\ CouncilInit
  /\ SessionInit
  /\ AgentInit
  /\ SelectInit
  /\ ipc = "start"
  /\ versionFile \in BOOLEAN
  /\ parentExists \in BOOLEAN
  /\ skillEntry \in SkillEntries
  /\ ~parentExists => skillEntry = Absent
  /\ backups = [c \in Clock |-> Absent]
  /\ now \in Clock
  /\ installMsg = "none"
  /\ removed = {}
  /\ faulted = FALSE

InstallNext ==
  \/ ReadVersion
  \/ \E f \in BOOLEAN : MkdirParent(f)
  \/ \E f \in BOOLEAN : CheckSkill(f)
  \/ \E f \in BOOLEAN : Unlink(f)
  \/ \E f \in BOOLEAN : Backup(f)
  \/ \E f \in BOOLEAN : CreateSymlink(f)

InstallSpec == InstallSpecInit /\ [][InstallNext]_vars

TypeOK ==
  /\ taskState \in [Tasks -> TaskStates]
  /\ retryCount \in [Tasks -> 0..MaxRetries]
  /\ age \in [Tasks -> 0..(StallTimeout + 1)]
  /\ lock \in 0..NumAgents
  /\ councilPhase \in {"idle", "voting", "devils_advocate"}
  /\ votes \in [Members -> {"none", "yes", "no"}]
  /\ decision \in {"none", "continue", "complete"}
  /\ session \in SessionStates
  /\ phase \in Phases
  /\ agentState \in [Agents -> AgentStates]
  /\ agentTask \in [Agents -> Tasks \cup {NoTask}]
  /\ provider \in ProviderNames \cup {"unset"}
  /\ envProvider \in SourceValues
  /\ tier \in TierNames \cup {"none"}
  /\ skillEntry \in SkillEntries
  /\ ipc \in {"start", "mkdir", "check", "unlink", "backup", "create", "done"}

\* ------------------------------------------------------------ task queue
Queued(t) == taskState[t] = "queued"

\* C1: under every interleaving of the agents' pick() calls with complete(),
\* the sweep and the retry manager, a task is returned by at most one pick()
\* call per time it is queued, and only one agent is inside pick() at a time.
AtMostOncePick ==
  /\ \A t \in Tasks : picks[t] <= 1
  /\ \A t \in Tasks : taskState[t] = "in_progress" => picks[t] = 1
  /\ \A a, b \in Agents : pc[a] = "picking" /\ pc[b] = "picking" => a = b

\* a retried task is in progress after its one pick while the other agent is
\* inside pick() with the other task
AtMostOncePickWitness ==
  \E t \in Tasks, a \in Agents :
    /\ taskState[t] = "in_progress"
    /\ retryCount[t] > 0
    /\ picks[t] = 1
    /\ pc[a] = "picking"
    /\ sel[a] \notin {NoTask, t}

\* C2 as stated: a task is in dead_letter if and only if its retry count is 5.
DeadLetterIffMaxRetries ==
  \A t \in Tasks : taskState[t] = "dead_letter" <=> retryCount[t] = MaxRetries

\* C2 as amended: a task in dead_letter has retry count 5, and a task whose
\* retry count is 5 is in dead_letter or still in retrying, from where its only
\* way on is to dead_letter; it is never queued or in progress again.
DeadLetterOnlyAtMaxRetries ==
  /\ \A t \in Tasks : taskState[t] = "dead_letter" => retryCount[t] = MaxRetries
  /\ \A t \in Tasks :
       retryCount[t] = MaxRetries => taskState[t] \in {"retrying", "dead_letter"}
  /\ \A t \in Tasks :
       retryCount[t] = MaxRetries /\ taskState[t] = "retrying"
         => ~ENABLED Requeue(t)

\* one task is dead-lettered after its fifth retry while the other is queued
\* again after its fourth
DeadLetterWitness ==
  \E t, u \in Tasks :
    /\ taskState[t] = "dead_letter" /\ retryCount[t] = MaxRetries
    /\ taskState[u] = "queued" /\ retryCount[u] = MaxRetries - 1

\* C3: every stalled -> retrying transition adds exactly one to the task's
\* retry count, no other transition changes it, and it stays within 0..5.
RetryCountStep ==
  \A t \in Tasks :
    IF taskState[t] = "stalled" /\ taskState'[t] = "retrying"
      THEN retryCount'[t] = retryCount[t] + 1
      ELSE retryCount'[t] = retryCount[t]

RetryCountCounts ==
  /\ [](\A t \in Tasks : retryCount[t] \in 0..MaxRetries)
  /\ [][RetryCountStep]_vars

\* a task has just taken its fifth retry
RetryCountWitness ==
  \E t \in Tasks : taskState[t] = "retrying" /\ retryCount[t] = MaxRetries

\* C4: dead_letter is terminal and reported: no operation changes the state of
\* a dead-lettered task, each has its entry in the dead-letter log, and the log
\* only grows.
DeadLetterLogged ==
  \A t \in Tasks :
    taskState[t] = "dead_letter"
      <=> \E i \in 1..Len(deadLetter) : deadLetter[i].id = t

DeadLetterStep ==
  /\ \A t \in Tasks :
       taskState[t] = "dead_letter" => taskState'[t] = "dead_letter"
  /\ Len(deadLetter') >= Len(deadLetter)
  /\ SubSeq(deadLetter', 1, Len(deadLetter)) = deadLetter

DeadLetterTerminal == []DeadLetterLogged /\ [][DeadLetterStep]_vars

\* both tasks are dead-lettered and complete() has just been refused for one
DeadLetterTerminalWitness ==
  /\ Len(deadLetter) = NumTasks
  /\ \A t \in Tasks : taskState[t] = "dead_letter"
  /\ ret.op = "complete" /\ ret.arg \in Tasks /\ ret.val = "UnknownTask"

\* C5: complete(taskId) succeeds exactly for a task in in_progress and moves
\* it to completed; for an absent id or a task in any other state it fails
\* with UnknownTask and changes no task's state or retry count.
CompleteStep ==
  \A id \in TaskIds :
    ret'.op = "complete" /\ ret'.arg = id =>
      IF id \in Tasks /\ taskState[id] = "in_progress"
        THEN /\ ret'.val = "ok"
             /\ taskState' = [taskState EXCEPT ![id] = "completed"]
             /\ retryCount' = retryCount
        ELSE /\ ret'.val = "UnknownTask"
             /\ taskState' = taskState
             /\ retryCount' = retryCount

CompleteContract == [][CompleteStep]_vars

\* complete() has just been refused for a queued task, after another task was
\* completed
CompleteWitness ==
  \E t, u \in Tasks :
    /\ ret.op = "complete" /\ ret.arg = t /\ ret.val = "UnknownTask"
    /\ taskState[t] = "queued"
    /\ taskState[u] = "completed"

\* C6: pick() returns the task that has been queued the longest, and the
\* 'no task available' signal exactly when no task is queued; the pending queue
\* holds the queued tasks in the order they were queued.
PickStep ==
  ret'.op = "pick" =>
    IF \E t \in Tasks : Queued(t)
      THEN /\ ret'.val = "task"
           /\ ret'.arg = Head(arrival)
           /\ Queued(ret'.arg)
           /\ taskState'[ret'.arg] = "in_progress"
      ELSE /\ ret'.val = "no_task"
           /\ taskState' = taskState

PickFifo ==
  /\ [](queue = arrival /\ \A t \in Tasks : Queued(t) <=> InSeq(arrival, t))
  /\ [][PickStep]_vars

\* pick() has just returned a task that was queued again after a retry, ahead
\* of the task queued behind it
PickFifoWitness ==
  \E t, u \in Tasks :
    /\ ret.op = "pick" /\ ret.val = "task" /\ ret.arg = t
    /\ retryCount[t] > 0
    /\ queue = <<u>>

\* C7 as stated: a task enters stalled only from in_progress; the sweep never
\* moves a queued, pending or completed task to stalled.
StalledOnlyFromInProgress ==
  [][\A t \in Tasks :
       taskState'[t] = "stalled" /\ taskState[t] # "stalled"
         => taskState[t] = "in_progress"]_vars

\* ------------------------------------------------------ completion council
RoundIds == 1..Len(rounds)

\* C8: the outcome of a tallied round is decided by its yes count: exactly 2 of
\* 3 yes gives complete with no devil's-advocate pass, 0 or 1 yes gives
\* continue, and the check returns that outcome.
TallyByYesCount ==
  /\ \A i \in RoundIds :
       rounds[i].review = "none" =>
         /\ YesCount(rounds[i].votes) = 2 =>
              /\ rounds[i].outcome = "complete"
              /\ \A j \in RoundIds :
                   rounds[j].round = rounds[i].round => rounds[j].review = "none"
         /\ YesCount(rounds[i].votes) <= 1 => rounds[i].outcome = "continue"
  /\ decision # "none" /\ councilError = "none" =>
       rounds # <<>> /\ decision = rounds[Len(rounds)].outcome

\* a round with one yes continued and the next round with two yes completed
TallyWitness ==
  \E i, j \in RoundIds :
    /\ i < j
    /\ YesCount(rounds[i].votes) = 1 /\ rounds[i].outcome = "continue"
    /\ YesCount(rounds[j].votes) = 2 /\ rounds[j].outcome = "complete"
    /\ decision = "complete"

\* C9: a round whose outcome is complete has at least 2 yes votes; a round
\* with 3 yes votes is devils-advocate-pending when tallied and is complete only
\* in the record of the devil's advocate's confirmation.
CompleteNeedsMajorityAndReview ==
  /\ \A i \in RoundIds :
       rounds[i].outcome = "complete" => YesCount(rounds[i].votes) >= 2
  /\ \A i \in RoundIds :
       YesCount(rounds[i].votes) = CouncilSize =>
         /\ rounds[i].review = "none" =>
              rounds[i].outcome = "devils_advocate_pending"
         /\ rounds[i].outcome = "complete" =>
              /\ rounds[i].review = "confirmed"
              /\ \E j \in 1..(i - 1) :
                   /\ rounds[j].round = rounds[i].round
                   /\ rounds[j].outcome = "devils_advocate_pending"
  /\ councilPhase = "devils_advocate" =>
       /\ decision # "complete"
       /\ rounds # <<>>
       /\ rounds[Len(rounds)].outcome = "devils_advocate_pending"
  /\ decision = "complete" =>
       rounds # <<>> /\ rounds[Len(rounds)].outcome = "complete"

\* a unanimous round was confirmed by the devil's advocate and completes
ReviewConfirmedWitness ==
  /\ decision = "complete"
  /\ rounds # <<>>
  /\ rounds[Len(rounds)].review = "confirmed"
  /\ YesCount(rounds[Len(rounds)].votes) = CouncilSize

\* C10: a unanimous round rejected by the devil's advocate decides continue,
\* the session goes on to the next iteration, and the rejection is a record of
\* its own behind the record of the unanimous vote, which stays as tallied.
RejectionContinues ==
  /\ \A i \in RoundIds :
       rounds[i].review = "rejected" =>
         /\ rounds[i].outcome = "continue"
         /\ i > 1
         /\ rounds[i - 1] =
              [round |-> rounds[i].round, votes |-> [m \in Members |-> "yes"],
               outcome |-> "devils_advocate_pending", review |-> "none"]
  /\ rounds # <<>> /\ rounds[Len(rounds)].review = "rejected"
       /\ rounds[Len(rounds)].round = roundNo /\ councilError = "none"
       /\ decision # "none" =>
         /\ councilPhase = "idle"
         /\ decision = "continue"
         /\ iteration < MaxIterations => ENABLED NextIteration

\* the devil's advocate has just rejected a unanimous round
RejectionWitness ==
  /\ rounds # <<>>
  /\ rounds[Len(rounds)].review = "rejected"
  /\ decision = "continue"
  /\ iteration < MaxIterations

\* C11: once a council round is tallied and persisted, its record (round
\* number, votes, outcome) is the same in every later state: later rounds, the
\* devil's-advocate pass, pause, resume, stop and reset only add records.
RoundsImmutable ==
  [][/\ Len(rounds') >= Len(rounds)
     /\ \A i \in 1..Len(rounds) : rounds'[i] = rounds[i]]_vars

\* three records, one of them a devil's-advocate review, are on file in a
\* session that was stopped
RoundsImmutableWitness ==
  /\ Len(rounds) >= 3
  /\ \E i \in RoundIds : rounds[i].review # "none"
  /\ \E i \in RoundIds : rounds[i].round > 1
  /\ session = "stopped"

Responses(v) == {m \in Members : v[m] # "none"}

\* C12: a checkConvergence call whose vote collection ends with fewer than 3
\* responses fails with QuorumError: no round is persisted, and the decision is
\* continue, whatever votes had arrived; QuorumError is raised in no other case.
QuorumErrorDiscardsRound ==
  [][/\ (/\ councilPhase = "voting"
         /\ councilPhase' # "voting"
         /\ Cardinality(Responses(votes)) < CouncilSize)
          => /\ councilError' = "QuorumError"
             /\ rounds' = rounds
             /\ decision' = "continue"
     /\ (councilError' = "QuorumError" /\ councilError # "QuorumError")
          => /\ councilPhase = "voting"
             /\ Cardinality(Responses(votes)) < CouncilSize
             /\ rounds' = rounds
             /\ decision' = "continue"]_vars

\* the second round ended in QuorumError: only the first round is on file
QuorumErrorWitness ==
  /\ councilError = "QuorumError"
  /\ decision = "continue"
  /\ roundNo = 2
  /\ Len(rounds) >= 1
  /\ \A i \in RoundIds : rounds[i].round = 1

\* C13: every checkConvergence call returns. A round is tallied only when all
\* 3 members have answered (join barrier), and a call that is collecting votes
\* ends, with a decision from the tally or with QuorumError at the timeout,
\* even if some member never answers.
CheckConvergenceReturns ==
  /\ [](\A i \in RoundIds :
          Cardinality(Responses(rounds[i].votes)) = CouncilSize)
  /\ [][councilPhase = "voting" /\ councilPhase' # "voting"
          => \/ Cardinality(Responses(votes)) = CouncilSize
             \/ councilError' = "QuorumError"]_vars
  /\ (councilPhase # "idle") ~> (councilPhase = "idle" /\ decision # "none")

\* a call returned QuorumError at the timeout (its round number is not on
\* file) after an earlier call had returned from a full tally
CheckConvergenceReturnsWitness ==
  /\ councilPhase = "idle"
  /\ councilError = "QuorumError"
  /\ Len(rounds) >= 1
  /\ roundNo > rounds[Len(rounds)].round

\* --------------------------------------------------------------- session
\* the edges the claim documents; phase_n* is read as the loop through the
\* phases (running -> phase_n -> running | phase_n), any -> stopped as leaving
\* every state, the three error / stop states included
DocumentedEdges ==
  {<<"idle", "initializing">>, <<"initializing", "running">>,
   <<"running", "phase_n">>, <<"phase_n", "running">>,
   <<"phase_n", "phase_n">>, <<"phase_n", "completing">>,
   <<"completing", "completed">>,
   <<"running", "paused">>, <<"paused", "running">>,
   <<"running", "failed">>, <<"phase_n", "failed">>,
   <<"running", "max_retries_exceeded">>,
   <<"phase_n", "max_retries_exceeded">>,
   <<"failed", "idle">>, <<"max_retries_exceeded", "idle">>,
   <<"stopped", "idle">>}
  \cup {<<st, "stopped">> : st \in SessionStates}

\* C14: the session state changes only along the documented edges, and from
\* failed, max_retries_exceeded or stopped the session goes on only to idle
\* (by reset), or to stopped by the stop that every state accepts.
SessionEdgesDocumented ==
  [][session' # session => <<session, session'>> \in DocumentedEdges]_vars

\* C15: stop is accepted in every session state (idle, initializing, running,
\* paused, phase_n, completing, completed, failed, max_retries_exceeded) and
\* a stop always leaves the session in stopped.
StopAlwaysStops ==
  /\ [](ENABLED (Stop /\ session' = "stopped"))
  /\ [][Stop => session' = "stopped"]_vars

\* a session stopped in its last phase, after that phase's tasks were resolved
StopAlwaysStopsWitness ==
  /\ session = "stopped"
  /\ phase = NumPhases
  /\ PhaseResolved(phase)
  /\ \E t \in Tasks : taskState[t] = "dead_letter"

\* C16: pause then resume is a round trip from running: the step that leaves
\* paused other than by stop ends in running, neither pause nor resume
\* changes the queue (task states, order, retry counts), the council state
\* or the iteration counter, and nothing of them changes while paused.
PauseResumeRoundTrip ==
  [][/\ (session = "running" /\ session' = "paused")
          => UNCHANGED <<queueVars, councilVars>>
     /\ session = "paused"
          => UNCHANGED <<queueVars, councilVars>>
     /\ (session = "paused" /\ session' \notin {"paused", "stopped"})
          => session' = "running"]_vars

Unresolved(t) ==
  taskState[t] \in {"pending", "queued", "in_progress", "stalled", "retrying"}

\* C17: the phase index only moves up by one, and when it does (or when the
\* last phase is left for completing) no task of the phase left behind is
\* pending, queued, in_progress, stalled or retrying.
PhaseAdvanceResolved ==
  [][/\ phase' # phase => phase' = phase + 1
     /\ (phase' # phase \/ (session' = "completing" /\ session # "completing"))
          => \A t \in Tasks : PhaseOf(t) = phase => ~Unresolved(t)]_vars

\* the session runs its second phase after a first phase that ended with one
\* task completed and one dead-lettered
PhaseAdvanceWitness ==
  /\ phase = 2
  /\ session = "running"
  /\ \E t, u \in PhaseTasks(1) :
       taskState[t] = "completed" /\ taskState[u] = "dead_letter"

SessionInterrupted ==
  session \in {"paused", "failed", "max_retries_exceeded", "stopped"}

\* C18: dead-lettered work never blocks progress. A running session whose
\* current phase has dead-lettered tasks and all other tasks completed goes on
\* to the next phase (to completing after the last one) unless it is paused,
\* stopped or failed first; and while a task is dead-lettered the head of the
\* queue can still be picked.
DeadLetterNeverBlocks ==
  /\ \A p \in Phases :
       (/\ session = "running"
        /\ phase = p
        /\ \E t \in Tasks : PhaseOf(t) = p /\ taskState[t] = "dead_letter"
        /\ \A t \in Tasks : PhaseOf(t) = p => ~Unresolved(t))
         ~> (phase > p \/ session = "completing" \/ SessionInterrupted)
  /\ []((/\ session = "running"
          /\ \E t \in Tasks : taskState[t] = "dead_letter"
          /\ queue # <<>>
          /\ lock = 0)
           => /\ taskState[Head(queue)] = "queued"
              /\ ENABLED (\E a \in Agents : PickBegin(a)))

\* an agent is inside pick() with the other task of the phase at the head of
\* the queue, after the first was dead-lettered (no task is dead-lettered
\* while the lock is held)
DeadLetterNeverBlocksWitness ==
  /\ session = "running"
  /\ \E t, u \in PhaseTasks(phase), a \in Agents :
       /\ taskState[t] = "dead_letter"
       /\ pc[a] = "picking"
       /\ sel[a] = u
       /\ taskState[u] = "queued"

\* ------------------------------------------------------- agent lifecycle
Holding(st) == {a \in Agents : st[a] \in {"working", "error", "retrying"}}

AssignContract ==
  [][/\ agentRet'.op = "assign" =>
          LET a == agentRet'.agent
              t == agentRet'.task
          IN /\ agentState[a] # "ready"
                  => /\ agentRet'.val = "AgentBusy"
                     /\ agentState' = agentState
                     /\ agentTask' = agentTask
             /\ agentRet'.val = "AgentBusy" => agentState[a] # "ready"
             /\ agentRet'.val = "ok"
                  => /\ agentState[a] = "ready"
                     /\ agentState'[a] = "working"
                     /\ agentTask'[a] = t
     /\ \A a \in Agents :
          /\ agentTask[a] # NoTask => agentTask'[a] = agentTask[a]
          /\ agentTask'[a] # agentTask[a] => agentRet'.val = "ok"
          /\ agentState[a] = "terminated" => agentState'[a] = "terminated"]_vars

\* an assign of another task to a terminated agent was refused with AgentBusy
AssignWitness ==
  /\ agentRet.val = "AgentBusy"
  /\ agentState[agentRet.agent] = "terminated"
  /\ agentTask[agentRet.agent] # NoTask
  /\ agentTask[agentRet.agent] # agentRet.task

\* C21 as stated: an agent leaves retrying only back to working, or to
\* terminated once its retry bound is used up, and every assigned agent
\* eventually reaches terminated.
AgentRetryBackToWorking ==
  /\ [][\A a \in Agents :
          (agentState[a] = "retrying" /\ agentState'[a] # "retrying")
            => agentState'[a] \in {"working", "terminated"}]_vars
  /\ \A a \in Agents :
       (agentState[a] = "working") ~> (agentState[a] = "terminated")

\* C22: with a provider without subagents (codex) at most one agent is
\* working, or held in error / retrying, in every reachable state; assign is
\* the same operation as in parallel mode: below the bound it takes a ready
\* agent to working, and spawn, complete and report are not restricted.
SequentialFallback ==
  /\ [](~ProviderHasSubagents(provider)
          => /\ Cardinality({a \in Agents : agentState[a] = "working"}) <= 1
             /\ Cardinality(Holding(agentState)) <= 1)
  /\ [][(/\ agentRet'.op = "assign"
          /\ agentState[agentRet'.agent] = "ready"
          /\ Holding(agentState) = {})
           => /\ agentRet'.val = "ok"
              /\ agentState'[agentRet'.agent] = "working"]_vars

\* under codex a second agent is working after the first one has terminated
\* with its task
SequentialWitness ==
  /\ provider = "codex"
  /\ \E a, b \in Agents :
       /\ agentState[a] = "terminated"
       /\ agentTask[a] # NoTask
       /\ agentState[b] = "working"

ProviderFirstMatch ==
  provider # "unset" =>
    /\ envProvider # "unset" => provider = envProvider
    /\ (envProvider = "unset" /\ cliProvider # "unset")
         => provider = cliProvider
    /\ (envProvider = "unset" /\ cliProvider = "unset" /\ cfgProvider # "unset")
         => provider = cfgProvider
    /\ (envProvider = "unset" /\ cliProvider = "unset" /\ cfgProvider = "unset")
         => provider = "claude"

\* three sources set to three different providers: the environment wins
ProviderFirstMatchWitness ==
  /\ envProvider = "codex"
  /\ cliProvider = "gemini"
  /\ cfgProvider = "claude"
  /\ provider = "codex"

\* C25: provider_get_tier_param gives planning, development and fast the
\* provider's parameter (codex: the PROVIDER_EFFORT_ variables; both: the
\* column of the model-selection table) and gives every other tier name, the
\* empty string included, the development value.
TierParamMapping ==
  (tier # "none" /\ provider \in {"claude", "codex"}) =>
    /\ tier = "planning"
         => tierParam = IF provider = "codex" THEN ProviderEffortPlanning
                                              ELSE "opus"
    /\ tier = "development"
         => tierParam = IF provider = "codex" THEN ProviderEffortDevelopment
                                              ELSE "sonnet"
    /\ tier = "fast"
         => tierParam = IF provider = "codex" THEN ProviderEffortFast
                                              ELSE "haiku"
    /\ tier \in {"planning", "development", "fast"}
         => tierParam = DocTierTable[tier][provider]
    /\ tier \notin {"planning", "development", "fast"}
         => tierParam = IF provider = "codex" THEN ProviderEffortDevelopment
                                              ELSE "sonnet"
    /\ ProviderEffortPlanning = "xhigh"
    /\ ProviderEffortDevelopment = "high"
    /\ ProviderEffortFast = "low"

\* codex was asked for the empty tier name and answered high
TierParamWitness ==
  /\ provider = "codex"
  /\ tier = ""
  /\ tierParam = "high"

\* ----------------------------------------------------------- postinstall.js
\* C29: when no filesystem call was made to fail, the script ends with the
\* skill path being a symlink to the package directory, whatever was at the
\* path at the start (nothing, a symlink to an existing target, a dangling
\* symlink, a real directory).
InstallEndsLinked ==
  (ipc = "done" /\ ~faulted) => skillEntry = Link("package")

\* C30: a real directory at the skill path is never deleted: it stays where
\* it is or moves whole to the backup path of the current timestamp, a backup
\* is never touched afterwards, a failed rename leaves the directory at the
\* skill path, and nothing but a symlink is ever removed.
RealDirectoryKept ==
  /\ [](removed \subseteq {"link"})
  /\ [](installMsg = "backup_failed" => skillEntry = Dir)
  /\ [][skillEntry = Dir
          => \/ skillEntry' = Dir /\ backups' = backups
             \/ /\ skillEntry' = Absent
                /\ backups[now] = Absent
                /\ backups' = [backups EXCEPT ![now] = Dir]]_vars
  /\ [][\A c \in Clock : backups[c] = Dir => backups'[c] = Dir]_vars

\* the directory was renamed to the backup path and the symlink created
RealDirectoryKeptWitness ==
  /\ ipc = "done"
  /\ backups[now] = Dir
  /\ skillEntry = Link("package")
  /\ removed = {}

\* ------------------------------------------------------- task conservation
InPendingQueue(t) == \E i \in 1..Len(queue) : queue[i] = t

InDeadLetterLog(t) == \E i \in 1..Len(deadLetter) : deadLetter[i].id = t

ClaimedEdges ==
  { <<"pending", "queued">>, <<"queued", "in_progress">>,
    <<"in_progress", "completed">>, <<"in_progress", "stalled">>,
    <<"stalled", "retrying">>, <<"retrying", "queued">>,
    <<"retrying", "dead_letter">> }

\* C27: every task has one of the seven states, a queued task is in the
\* pending queue and a dead-lettered one in the dead-letter log and in no
\* other store, and a task's state changes only along pending -> queued ->
\* in_progress -> {completed, stalled}, stalled -> retrying -> {queued,
\* dead_letter}.
TaskConservation ==
  /\ [](\A t \in Tasks : taskState[t] \in TaskStates)
  /\ [](\A t \in Tasks :
          /\ InPendingQueue(t) <=> taskState[t] = "queued"
          /\ InDeadLetterLog(t) <=> taskState[t] = "dead_letter")
  /\ [][\A t \in Tasks :
          taskState'[t] # taskState[t]
            => <<taskState[t], taskState'[t]>> \in ClaimedEdges]_vars

\* C28: with pick, the sweep and the retry manager scheduled fairly, every
\* queued task eventually is completed or dead-lettered.
EveryTaskSettles ==
  \A t \in Tasks :
    (taskState[t] = "queued")
      ~> (taskState[t] \in {"completed", "dead_letter"})

====
